---------------------------- MODULE Spec2Model ----------------------------
(***************************************************************************)
(* GA4 sessions fetcher: the HTTP-triggered functions of main.py,          *)
(* main_oauth.py and main_old.py and the command-line helpers of           *)
(* sessions.py and accounts.py.                                            *)
(*                                                                         *)
(* One behaviour is one invocation: Init picks the entry point and the     *)
(* request, the entry point's action runs the code up to its vendor SDK    *)
(* call (or to its early return), the vendor answers (a report, a page of  *)
(* account summaries, or an exception) and the code after the call builds  *)
(* the outcome.                                                            *)
(*                                                                         *)
(* Python values: None is <<>> and a present value v is <<v>>.  Header     *)
(* values and resource names are sequences of one-character strings, so    *)
(* that startswith, split and strip are computed character by character;   *)
(* parameter values are strings, of which the code reads only the          *)
(* truthiness and which it interpolates into "properties/<id>".            *)
(***************************************************************************)
EXTENDS Integers, Sequences, FiniteSets, TLC

\* ------------------------------------------------------------ bounds
\* account summaries the vendor's pager yields in one listing, at most
MaxAccounts == 2
\* property summaries of one account summary, at most
MaxProps == 2
\* rows of one report, at most
MaxRows == 2
\* digits of a metric value, at most
MaxDigits == 2

\* ------------------------------------------------------------ Python values
None == <<>>
Some(v) == <<v>>

\* bool(v) of a value that is None or a str
Truthy(v) == v # None /\ v[1] # ""

\* a or b
Or(a, b) == IF Truthy(a) THEN a ELSE b

\* ------------------------------------------------------------ str methods
\* s.startswith(p)
StartsWith(s, p) == Len(s) >= Len(p) /\ SubSeq(s, 1, Len(p)) = p

\* index of the first sep in s, 0 when there is none
RECURSIVE Find(_, _, _)
Find(s, sep, i) ==
    IF i > Len(s) THEN 0
    ELSE IF s[i] = sep THEN i
    ELSE Find(s, sep, i + 1)

\* s.split(sep): the parts of s between the separators, in order
RECURSIVE Split(_, _)
Split(s, sep) ==
    LET i == Find(s, sep, 1)
    IN  IF i = 0 THEN <<s>>
        ELSE <<SubSeq(s, 1, i - 1)>> \o Split(SubSeq(s, i + 1, Len(s)), sep)

\* s.split(sep, 1): at most one split, at the first sep
Split1(s, sep) ==
    LET i == Find(s, sep, 1)
    IN  IF i = 0 THEN <<s>>
        ELSE <<SubSeq(s, 1, i - 1), SubSeq(s, i + 1, Len(s))>>

Whitespace == {" "}

RECURSIVE LStrip(_)
LStrip(s) ==
    IF s # <<>> /\ s[1] \in Whitespace THEN LStrip(Tail(s)) ELSE s

RECURSIVE RStrip(_)
RStrip(s) ==
    IF s # <<>> /\ s[Len(s)] \in Whitespace
    THEN RStrip(SubSeq(s, 1, Len(s) - 1))
    ELSE s

\* s.strip()
Strip(s) == RStrip(LStrip(s))

\* ------------------------------------------------------------ int()
Digits == {"0", "1", "7"}

DigitValue(c) == CASE c = "0" -> 0 [] c = "1" -> 1 [] c = "7" -> 7

\* int(s) of a non-empty string of decimal digits
RECURSIVE ParseInt(_)
ParseInt(s) ==
    IF s = <<>> THEN 0
    ELSE 10 * ParseInt(SubSeq(s, 1, Len(s) - 1)) + DigitValue(s[Len(s)])

\* ------------------------------------------------------------ outcomes
\* what an entry point ends with: a (body, status, headers) tuple returned to
\* the host, an exception that leaves the function, a value returned to a
\* Python caller, or text printed
NoHeaders == [k \in {} |-> ""]
NoOutcome == [kind |-> "none", status |-> 0, body |-> [text |-> ""],
              headers |-> NoHeaders, exc |-> ""]
Response(body, status, headers) ==
    [kind |-> "response", status |-> status, body |-> body,
     headers |-> headers, exc |-> ""]
Raised(exc) ==
    [kind |-> "raised", status |-> 0, body |-> [text |-> ""],
     headers |-> NoHeaders, exc |-> exc]
Returned(v) ==
    [kind |-> "returned", status |-> 0, body |-> [value |-> v],
     headers |-> NoHeaders, exc |-> ""]
Printed(body) ==
    [kind |-> "printed", status |-> 0, body |-> body,
     headers |-> NoHeaders, exc |-> ""]

\* json.dumps(obj): the text that encodes obj
json_dumps(obj) == [json |-> obj]

\* ------------------------------------------------------------ main.py helpers
_cors_headers ==
    ("Content-Type" :> "application/json")
    @@ ("Access-Control-Allow-Origin" :> "*")
    @@ ("Access-Control-Allow-Headers" :> "Authorization, Content-Type")
    @@ ("Access-Control-Allow-Methods" :> "GET, POST, OPTIONS")

\* the headers of main_oauth.py and main_old.py
JsonHeaders == ("Content-Type" :> "application/json")

_handle_preflight(req) ==
    IF req.method = "OPTIONS"
    THEN Some(Response([text |-> ""], 204, _cors_headers))
    ELSE None

Bearer == <<"B", "e", "a", "r", "e", "r", " ">>

\* request.headers.get("Authorization", "")
AuthorizationHeader(req) ==
    IF req.headers.Authorization = None THEN <<>>
    ELSE req.headers.Authorization[1]

\* the result of a call that may raise
Ok(v) == [raised |-> FALSE, exc |-> "", msg |-> "", value |-> Some(v)]
Raise(exc, msg) == [raised |-> TRUE, exc |-> exc, msg |-> msg, value |-> None]

ReadonlyScope == "https://www.googleapis.com/auth/analytics.readonly"

main_get_user_credentials_from_request(req) ==
    LET auth_header == AuthorizationHeader(req)
    IN  IF ~StartsWith(auth_header, Bearer)
        THEN Raise("ValueError",
                   "Missing/invalid Authorization header. Use: Bearer <ACCESS_TOKEN>")
        ELSE LET token == Strip(Split1(auth_header, " ")[2])
             IN  IF token = <<>>
                 THEN Raise("ValueError", "Empty bearer token.")
                 ELSE Ok([token |-> token, scopes |-> <<ReadonlyScope>>])

oauth_get_user_credentials_from_request(req) ==
    LET auth_header == AuthorizationHeader(req)
    IN  IF ~StartsWith(auth_header, Bearer)
        THEN Raise("ValueError",
                   "Missing or invalid Authorization header. Expected: 'Authorization: Bearer <ACCESS_TOKEN>'")
        ELSE LET token == Strip(Split1(auth_header, " ")[2])
             IN  IF token = <<>>
                 THEN Raise("ValueError",
                            "Empty bearer token in Authorization header.")
                 ELSE Ok([token |-> token, scopes |-> <<>>])


\* ------------------------------------------------------------ requests
Methods == {"GET", "POST", "OPTIONS"}

\* Authorization headers: absent, "Basic t", "Bearer", "Bearer ", "Bearer   ",
\* "Bearer t", "Bearer  t "
AuthHeaders ==
    { None,
      Some(<<"B", "a", "s", "i", "c", " ", "t">>),
      Some(<<"B", "e", "a", "r", "e", "r">>),
      Some(Bearer),
      Some(Bearer \o <<" ", " ">>),
      Some(Bearer \o <<"t">>),
      Some(Bearer \o <<" ", "t", " ">>) }

\* request.args: each parameter absent, empty or given
Args ==
    [property_id : {None, Some(""), Some("182279779")},
     start_date : {None, Some(""), Some("2025-12-01")},
     end_date : {None, Some(""), Some("2025-12-15")}]
NoArgs == [property_id |-> None, start_date |-> None, end_date |-> None]

\* request.get_json(silent=True): None (no body, or not JSON), a JSON array,
\* or a JSON object with each parameter absent or given
NoBody == [kind |-> "none", property_id |-> None, start_date |-> None,
           end_date |-> None]
ArrayBody == [kind |-> "array", property_id |-> None, start_date |-> None,
              end_date |-> None]
ObjectBodies ==
    [kind : {"object"},
     property_id : {None, Some("313")},
     start_date : {None, Some("7daysAgo")},
     end_date : {None, Some("yesterday")}]
Bodies == {NoBody, ArrayBody} \cup ObjectBodies

SessionsHandlers ==
    {"main.ga4_property_sessions_oauth", "main_oauth.ga4_property_sessions",
     "main_old.ga4_property_sessions"}
ListHandlers ==
    {"main.ga4_list_accounts_oauth", "main_oauth.ga4_list_accounts",
     "main_old.ga4_list_accounts"}
Handlers ==
    SessionsHandlers \cup ListHandlers
    \cup {"sessions.get_sessions_for_property", "accounts.main"}

\* the requests an entry point is invoked with; what it never reads is left
\* out (the listings read no parameters, main_old.py reads no header, the
\* command-line helpers read no request: get_sessions_for_property takes its
\* arguments, start_date None standing for an omitted argument)
NoCall == [method |-> "", headers |-> [Authorization |-> None],
           args |-> NoArgs, json |-> NoBody]
Requests(h) ==
    CASE h \in {"main.ga4_property_sessions_oauth",
                "main_oauth.ga4_property_sessions"} ->
            [method : Methods, headers : [Authorization : AuthHeaders],
             args : Args, json : Bodies]
      [] h = "main_old.ga4_property_sessions" ->
            [method : Methods,
             headers : [Authorization : {None, Some(Bearer \o <<"t">>)}],
             args : Args, json : Bodies]
      [] h \in {"main.ga4_list_accounts_oauth",
                "main_oauth.ga4_list_accounts"} ->
            [method : Methods, headers : [Authorization : AuthHeaders],
             args : {NoArgs}, json : {NoBody}]
      [] h = "main_old.ga4_list_accounts" ->
            [method : Methods,
             headers : [Authorization : {None, Some(Bearer \o <<"t">>)}],
             args : {NoArgs}, json : {NoBody}]
      [] h = "sessions.get_sessions_for_property" ->
            [method : {""}, headers : [Authorization : {None}],
             args : [property_id : {Some("182279779")},
                     start_date : {None, Some(""), Some("30daysAgo")},
                     end_date : {None, Some(""), Some("2025-12-15")}],
             json : {NoBody}]
      [] h = "accounts.main" -> {NoCall}

\* ------------------------------------------------------------ parameters
\* main.py 120-128, main_oauth.py 109-120 and main_old.py 91-103: the
\* query string first, the JSON body only when the query string gave no
\* property_id.  get_json(silent=True) does not raise, so the try/except the
\* two older files put around it changes nothing; data.get is outside it.
read_parameters(req) ==
    LET has_args == req.args # NoArgs
        q_property_id == IF has_args THEN req.args.property_id ELSE None
        q_start_date == IF has_args THEN req.args.start_date ELSE None
        q_end_date == IF has_args THEN req.args.end_date ELSE None
    IN  IF Truthy(q_property_id)
        THEN Ok([property_id |-> q_property_id, start_date |-> q_start_date,
                 end_date |-> q_end_date])
        ELSE IF req.json.kind = "array"
        THEN Raise("AttributeError", "'list' object has no attribute 'get'")
        ELSE LET data == IF req.json.kind = "object" THEN req.json ELSE NoBody
             IN  Ok([property_id |-> Or(q_property_id, data.property_id),
                     start_date |-> Or(q_start_date, data.start_date),
                     end_date |-> Or(q_end_date, data.end_date)])

\* default_dates with both dates replaced as soon as either is missing
default_dates_both(p) ==
    IF Truthy(p.start_date) /\ Truthy(p.end_date) THEN p
    ELSE [property_id |-> p.property_id, start_date |-> Some("30daysAgo"),
          end_date |-> Some("today")]

\* start_date = start_date or "30daysAgo"; end_date = end_date or "today"
default_dates(p) ==
    [property_id |-> p.property_id,
     start_date |-> Or(p.start_date, Some("30daysAgo")),
     end_date |-> Or(p.end_date, Some("today"))]

RunReportRequest(creds, p) ==
    [api |-> "run_report", credentials |-> creds,
     property |-> "properties/" \o p.property_id[1],
     metrics |-> <<"sessions">>,
     date_ranges |-> <<[start_date |-> p.start_date[1],
                        end_date |-> p.end_date[1]]>>]

\* ------------------------------------------------------------ steps
\* the code of an entry point up to its vendor call: it ends there (done)
\* or has a request to send and locals to keep
NoLocals == [property_id |-> None, start_date |-> None, end_date |-> None]
Finish(o) == [done |-> TRUE, outcome |-> o, sent |-> None, locals |-> NoLocals]
CallVendor(r, l) ==
    [done |-> FALSE, outcome |-> NoOutcome, sent |-> Some(r), locals |-> l]

MissingPropertyId == json_dumps([error |-> "Missing required parameter: property_id"])

\* main_sessions_begin with the parameters checked before the credentials
main_sessions_begin_params_first(req) ==
    LET pre == _handle_preflight(req)
        c == main_get_user_credentials_from_request(req)
        r == read_parameters(req)
        p == default_dates(r.value[1])
    IN  IF pre # None THEN Finish(pre[1])
        ELSE IF r.raised THEN Finish(Raised(r.exc))
        ELSE IF ~Truthy(r.value[1].property_id)
        THEN Finish(Response(MissingPropertyId, 400, _cors_headers))
        ELSE IF c.raised
        THEN Finish(Response(json_dumps([error |-> c.msg]), 401, _cors_headers))
        ELSE CallVendor(RunReportRequest(c.value, p), p)

\* main.py ga4_property_sessions_oauth, up to data_client.run_report
main_sessions_begin(req) ==
    LET pre == _handle_preflight(req)
        c == main_get_user_credentials_from_request(req)
        r == read_parameters(req)
        p == default_dates(r.value[1])
    IN  IF pre # None THEN Finish(pre[1])
        ELSE IF c.raised
        THEN Finish(Response(json_dumps([error |-> c.msg]), 401, _cors_headers))
        ELSE IF r.raised THEN Finish(Raised(r.exc))
        ELSE IF ~Truthy(r.value[1].property_id)
        THEN Finish(Response(MissingPropertyId, 400, _cors_headers))
        ELSE CallVendor(RunReportRequest(c.value, p), p)

\* main_oauth.py ga4_property_sessions, up to data_client.run_report
oauth_sessions_begin(req) ==
    LET c == oauth_get_user_credentials_from_request(req)
        r == read_parameters(req)
        p == default_dates(r.value[1])
    IN  IF c.raised
        THEN Finish(Response(json_dumps([error |-> c.msg]), 401, JsonHeaders))
        ELSE IF r.raised THEN Finish(Raised(r.exc))
        ELSE IF ~Truthy(r.value[1].property_id)
        THEN Finish(Response(MissingPropertyId, 400, JsonHeaders))
        ELSE CallVendor(RunReportRequest(c.value, p), p)

\* main_old.py ga4_property_sessions, up to client.run_report
old_sessions_begin(req) ==
    LET r == read_parameters(req)
        p == default_dates(r.value[1])
    IN  IF r.raised THEN Finish(Raised(r.exc))
        ELSE IF ~Truthy(r.value[1].property_id)
        THEN Finish(Response(MissingPropertyId, 400, JsonHeaders))
        ELSE CallVendor(RunReportRequest(None, p), p)

\* sessions.py get_sessions_for_property, up to client.run_report: an
\* omitted start_date or end_date takes the signature's default
get_sessions_begin(req) ==
    LET p == [property_id |-> req.args.property_id,
              start_date |-> IF req.args.start_date = None
                             THEN Some("2025-12-01") ELSE req.args.start_date,
              end_date |-> IF req.args.end_date = None
                           THEN Some("today") ELSE req.args.end_date]
    IN  CallVendor(RunReportRequest(None, p), p)

\* ------------------------------------------------------------ reports
\* a metric value: a string of 1..MaxDigits digits
RECURSIVE DigitStrings(_)
DigitStrings(n) ==
    IF n = 0 THEN {<<>>}
    ELSE LET shorter == DigitStrings(n - 1)
         IN  shorter \cup {Append(s, d) : s \in shorter, d \in Digits}
MetricValues == DigitStrings(MaxDigits) \ {<<>>}

Row(v) == [metric_values |-> <<[value |-> v]>>]

\* response.rows: no row, or up to MaxRows rows; the first row's value is any
\* metric value, the rows after it (which no code reads) hold "1"
Reports ==
    {<<>>} \cup
    {[i \in 1..n |-> IF i = 1 THEN Row(v) ELSE Row(<<"1">>)] :
        n \in 1..MaxRows, v \in MetricValues}

\* total_sessions reading the last row instead of the first
total_sessions_last_row(rows) ==
    IF rows = <<>> THEN 0
    ELSE ParseInt(rows[Len(rows)].metric_values[1].value)

\* total_sessions of main.py 147-149 (main_oauth.py 146-149, main_old.py
\* 130-133, sessions.py 29-33)
total_sessions(rows) ==
    IF rows = <<>> THEN 0
    ELSE ParseInt(rows[1].metric_values[1].value)

sessions_result(l, rows) ==
    [propertyId |-> l.property_id[1],
     dateRange |-> [start_date |-> l.start_date[1],
                    end_date |-> l.end_date[1]],
     metrics |-> [sessions |-> total_sessions(rows)]]

\* the code after run_report returned
after_run_report(h, l, rows) ==
    CASE h = "main.ga4_property_sessions_oauth" ->
            Response(json_dumps(sessions_result(l, rows)), 200, _cors_headers)
      [] h \in {"main_oauth.ga4_property_sessions",
                "main_old.ga4_property_sessions"} ->
            Response(json_dumps(sessions_result(l, rows)), 200, JsonHeaders)
      [] h = "sessions.get_sessions_for_property" ->
            Returned(total_sessions(rows))

\* run_report raised: no sessions code has a try around the call
run_report_raised(h) == Raised("GoogleAPICallError")

\* ------------------------------------------------------------ listings
\* property resource names: "p/1" (the vendor's "properties/<id>"), "2"
\* (no "/") and "a/p/3" (more than one "/")
PropertyNames ==
    { <<"p", "/", "1">>, <<"2">>, <<"a", "/", "p", "/", "3">> }

PropertySummaries ==
    [property : PropertyNames, display_name : {"GA4_web"}]

RECURSIVE SeqsUpTo(_, _)
SeqsUpTo(S, n) ==
    IF n = 0 THEN {<<>>}
    ELSE LET shorter == SeqsUpTo(S, n - 1)
         IN  shorter \cup {Append(q, x) : q \in shorter, x \in S}

\* the i-th account summary the pager may yield
AccountSummaries(i) ==
    [account : {<<"accounts", i>>}, display_name : {"App"},
     property_summaries : SeqsUpTo(PropertySummaries, MaxProps)]

\* prop_id taking the part after the first "/" (split("/")[1])
prop_id_second_part(name) ==
    LET parts == Split(name, "/")
    IN  IF Len(parts) >= 2 THEN parts[2] ELSE parts[1]

\* prop_summary.property.split("/")[-1]
prop_id(name) == LET parts == Split(name, "/") IN parts[Len(parts)]

property_entry(prop_summary) ==
    [property |-> prop_summary.property,
     propertyId |-> prop_id(prop_summary.property),
     displayName |-> prop_summary.display_name]

\* the inner loop: one entry appended per property summary, in order
RECURSIVE properties_of(_)
properties_of(summaries) ==
    IF summaries = <<>> THEN <<>>
    ELSE <<property_entry(Head(summaries))>> \o properties_of(Tail(summaries))

\* the body of `for summary in client.list_account_summaries()`
account_entry(summary) ==
    [account |-> summary.account,
     displayName |-> summary.display_name,
     properties |-> properties_of(summary.property_summaries)]

ListRequest(creds) == [api |-> "list_account_summaries", credentials |-> creds]

\* main.py ga4_list_accounts_oauth, up to client.list_account_summaries():
\* the credentials are read inside the try, whose except Exception answers
\* 500 with str(e) and the traceback
main_list_begin(req) ==
    LET c == main_get_user_credentials_from_request(req)
    IN  IF req.method = "OPTIONS"
        THEN Finish(Response([text |-> ""], 204, _cors_headers))
        ELSE IF c.raised
        THEN Finish(Response(json_dumps([error |-> c.msg, traceback |-> c.exc]),
                             500, _cors_headers))
        ELSE CallVendor(ListRequest(c.value), NoLocals)

\* main_oauth.py ga4_list_accounts, up to client.list_account_summaries()
oauth_list_begin(req) ==
    LET c == oauth_get_user_credentials_from_request(req)
    IN  IF c.raised
        THEN Finish(Response(json_dumps([error |-> c.msg]), 401, JsonHeaders))
        ELSE CallVendor(ListRequest(c.value), NoLocals)

\* main_old.py ga4_list_accounts and accounts.py main, up to
\* client.list_account_summaries()
old_list_begin(req) == CallVendor(ListRequest(None), NoLocals)

\* the code after the pager is exhausted
after_listing(h, data) ==
    CASE h = "main.ga4_list_accounts_oauth" ->
            Response(json_dumps([accounts |-> data]), 200, _cors_headers)
      [] h \in {"main_oauth.ga4_list_accounts", "main_old.ga4_list_accounts"} ->
            Response(json_dumps([accounts |-> data]), 200, JsonHeaders)
      [] h = "accounts.main" ->
            Printed(json_dumps([accounts |-> data]))

\* listing_raised with main.py's except block answering an empty listing
listing_raised_swallowed(h) ==
    IF h = "main.ga4_list_accounts_oauth"
    THEN Response(json_dumps([accounts |-> <<>>]), 200, _cors_headers)
    ELSE Raised("GoogleAPICallError")

\* list_account_summaries(), or the pager while it is iterated, raised: only
\* main.py has a try around the loop
listing_raised(h) ==
    IF h = "main.ga4_list_accounts_oauth"
    THEN Response(json_dumps([error |-> "vendor error",
                              traceback |-> "GoogleAPICallError"]),
                  500, _cors_headers)
    ELSE Raised("GoogleAPICallError")

\* ------------------------------------------------------------ the host
\* what the caller of an HTTP function receives: the returned tuple, or the
\* host's own 500 when the function raised
HostResponse(o) ==
    IF o.kind = "raised"
    THEN [status |-> 500, body |-> [text |-> "Internal Server Error"],
          headers |-> NoHeaders]
    ELSE [status |-> o.status, body |-> o.body, headers |-> o.headers]

\* ------------------------------------------------------------ state
VARIABLES
    handler,        \* the entry point invoked
    request,        \* its request (or call arguments)
    pc,             \* "ready", "run_report", "list" or "done"
    locals,         \* property_id, start_date, end_date at the vendor call
    sent,           \* the request given to the vendor SDK, None before
    vendorCalls,    \* vendor SDK calls issued
    report,         \* the rows run_report returned, None before
    yielded,        \* the account summaries the pager yielded so far
    accounts_data,  \* the entries built from them
    vendorRaised,   \* whether the vendor SDK call raised
    outcome         \* what the invocation ended with

vars == <<handler, request, pc, locals, sent, vendorCalls, report, yielded,
          accounts_data, vendorRaised, outcome>>

Init ==
    /\ handler \in Handlers
    /\ request \in Requests(handler)
    /\ pc = "ready"
    /\ locals = NoLocals
    /\ sent = None
    /\ vendorCalls = 0
    /\ report = None
    /\ yielded = <<>>
    /\ accounts_data = <<>>
    /\ vendorRaised = FALSE
    /\ outcome = NoOutcome

\* the state after the code up to the vendor call has run
Begin(step) ==
    /\ outcome' = step.outcome
    /\ sent' = step.sent
    /\ locals' = step.locals
    /\ vendorCalls' = IF step.done THEN vendorCalls ELSE vendorCalls + 1
    /\ pc' = IF step.done THEN "done"
             ELSE IF step.sent[1].api = "run_report" THEN "run_report"
             ELSE "list"
    /\ UNCHANGED <<handler, request, report, yielded, accounts_data,
                   vendorRaised>>

ga4_property_sessions_oauth ==
    /\ pc = "ready" /\ handler = "main.ga4_property_sessions_oauth"
    /\ Begin(main_sessions_begin(request))

oauth_ga4_property_sessions ==
    /\ pc = "ready" /\ handler = "main_oauth.ga4_property_sessions"
    /\ Begin(oauth_sessions_begin(request))

old_ga4_property_sessions ==
    /\ pc = "ready" /\ handler = "main_old.ga4_property_sessions"
    /\ Begin(old_sessions_begin(request))

get_sessions_for_property ==
    /\ pc = "ready" /\ handler = "sessions.get_sessions_for_property"
    /\ Begin(get_sessions_begin(request))

ga4_list_accounts_oauth ==
    /\ pc = "ready" /\ handler = "main.ga4_list_accounts_oauth"
    /\ Begin(main_list_begin(request))

oauth_ga4_list_accounts ==
    /\ pc = "ready" /\ handler = "main_oauth.ga4_list_accounts"
    /\ Begin(oauth_list_begin(request))

old_ga4_list_accounts ==
    /\ pc = "ready" /\ handler = "main_old.ga4_list_accounts"
    /\ Begin(old_list_begin(request))

accounts_main ==
    /\ pc = "ready" /\ handler = "accounts.main"
    /\ Begin(old_list_begin(request))

\* run_report returns a report and the code after the call runs
RunReportReturns ==
    /\ pc = "run_report"
    /\ \E rows \in Reports :
        /\ report' = Some(rows)
        /\ outcome' = after_run_report(handler, locals, rows)
    /\ pc' = "done"
    /\ UNCHANGED <<handler, request, locals, sent, vendorCalls, yielded,
                   accounts_data, vendorRaised>>

\* RunReportRaises with the call issued again after it raised
RunReportRaisesRetry ==
    /\ pc = "run_report"
    /\ vendorCalls < 3
    /\ vendorRaised' = TRUE
    /\ vendorCalls' = vendorCalls + 1
    /\ UNCHANGED <<handler, request, pc, locals, sent, report, yielded,
                   accounts_data, outcome>>

\* run_report raises
RunReportRaises ==
    /\ pc = "run_report"
    /\ vendorRaised' = TRUE
    /\ outcome' = run_report_raised(handler)
    /\ pc' = "done"
    /\ UNCHANGED <<handler, request, locals, sent, vendorCalls, report,
                   yielded, accounts_data>>

\* the pager yields one more account summary and the loop body runs
ListYields ==
    /\ pc = "list"
    /\ Len(yielded) < MaxAccounts
    /\ \E summary \in AccountSummaries(Len(yielded) + 1) :
        /\ yielded' = Append(yielded, summary)
        /\ accounts_data' = Append(accounts_data, account_entry(summary))
    /\ UNCHANGED <<handler, request, pc, locals, sent, vendorCalls, report,
                   vendorRaised, outcome>>

\* the pager is exhausted and the code after the loop runs
ListEnds ==
    /\ pc = "list"
    /\ outcome' = after_listing(handler, accounts_data)
    /\ pc' = "done"
    /\ UNCHANGED <<handler, request, locals, sent, vendorCalls, report,
                   yielded, accounts_data, vendorRaised>>

\* list_account_summaries(), or the fetch of a later page, raises
ListRaises ==
    /\ pc = "list"
    /\ vendorRaised' = TRUE
    /\ outcome' = listing_raised(handler)
    /\ pc' = "done"
    /\ UNCHANGED <<handler, request, locals, sent, vendorCalls, report,
                   yielded, accounts_data>>

Next ==
    \/ ga4_property_sessions_oauth
    \/ oauth_ga4_property_sessions
    \/ old_ga4_property_sessions
    \/ get_sessions_for_property
    \/ ga4_list_accounts_oauth
    \/ oauth_ga4_list_accounts
    \/ old_ga4_list_accounts
    \/ accounts_main
    \/ RunReportReturns
    \/ RunReportRaises
    \/ ListYields
    \/ ListEnds
    \/ ListRaises

Spec == Init /\ [][Next]_vars

\* ------------------------------------------------------------ vocabulary
Done == pc = "done"

HttpHandlers == SessionsHandlers \cup ListHandlers
BearerHandlers ==
    {"main.ga4_list_accounts_oauth", "main.ga4_property_sessions_oauth",
     "main_oauth.ga4_list_accounts", "main_oauth.ga4_property_sessions"}
MainHandlers ==
    {"main.ga4_list_accounts_oauth", "main.ga4_property_sessions_oauth"}

\* the Authorization header is absent, does not start with "Bearer ", or has
\* nothing but whitespace after it
BadAuthorization ==
    LET h == request.headers.Authorization
    IN  \/ h = None
        \/ Len(h[1]) < 7
        \/ \E i \in 1..7 : h[1][i] # Bearer[i]
        \/ \A i \in 8..Len(h[1]) : h[1][i] = " "

\* the outcome is a returned tuple with this status
Answered(status) == outcome.kind = "response" /\ outcome.status = status

\* the outcome's body is JSON text of an object with this field
BodyHas(field) ==
    /\ outcome.kind \in {"response", "printed"}
    /\ "json" \in DOMAIN outcome.body
    /\ field \in DOMAIN outcome.body.json

\* the request gives a non-empty value of a parameter in the query string /
\* in a JSON object body
InQuery(k) == Truthy(request.args[k])
InBody(k) == request.json.kind = "object" /\ Truthy(request.json[k])

\* the date range the vendor was sent
SentRange == sent[1].date_ranges[1]

\* ------------------------------------------------------------ claims

\* C1: in the four handlers that authenticate with a bearer token, a
\* non-OPTIONS request with an absent, non-Bearer or empty-token
\* Authorization header is answered 401 with a JSON body holding "error".
C1_BadAuthorizationAnswered401 ==
    (Done /\ handler \in BearerHandlers /\ request.method # "OPTIONS"
          /\ BadAuthorization)
        => (Answered(401) /\ BodyHas("error"))

\* C2: in the three sessions handlers, a request that passes authentication
\* (none in main_old.py) and gives no non-empty property_id in the query
\* string nor in the JSON body is answered 400 with the body
\* {"error": "Missing required parameter: property_id"}.
C2_MissingPropertyIdAnswered400 ==
    (/\ Done /\ handler \in SessionsHandlers
     /\ handler = "main.ga4_property_sessions_oauth"
            => request.method # "OPTIONS"
     /\ handler # "main_old.ga4_property_sessions" => ~BadAuthorization
     /\ ~InQuery("property_id") /\ ~InBody("property_id"))
        => (Answered(400) /\ outcome.body = MissingPropertyId)

\* C3: in every HTTP handler, when the vendor SDK call raised, the caller
\* receives a 500; the invocation ends neither with a 200 nor with a body
\* holding the (partially built) result.
C3_VendorExceptionEnds500 ==
    (handler \in HttpHandlers /\ vendorRaised)
        => /\ Done
           /\ HostResponse(outcome).status = 500
           /\ ~Answered(200)
           /\ ~BodyHas("accounts") /\ ~BodyHas("metrics")
           /\ outcome.kind = "response" => BodyHas("error")

C3_Witness ==
    /\ Done /\ vendorRaised
    /\ handler = "main.ga4_list_accounts_oauth"
    /\ Len(accounts_data) = 1

SuppliedPropertyId ==
    IF InQuery("property_id") THEN request.args.property_id[1]
    ELSE request.json.property_id[1]

\* the session count the invocation reported
ReportedSessions ==
    IF handler = "sessions.get_sessions_for_property"
    THEN outcome.body.value
    ELSE outcome.body.json.metrics.sessions

SessionsReported ==
    /\ Done /\ report # None
    /\ handler \in SessionsHandlers \cup {"sessions.get_sessions_for_property"}

\* C5 as stated: the reported count is the integer value of the first metric
\* of the first row, and is 0 exactly when the report has no rows; the
\* response's propertyId is the caller's and the vendor request targets
\* "properties/<property_id>".
C5_Original ==
    SessionsReported
        => /\ report[1] # <<>> =>
                ReportedSessions = ParseInt(report[1][1].metric_values[1].value)
           /\ ReportedSessions = 0 <=> report[1] = <<>>
           /\ sent[1].property = "properties/" \o SuppliedPropertyId
           /\ handler \in SessionsHandlers =>
                outcome.body.json.propertyId = SuppliedPropertyId

\* C5 (amended): the reported count is the integer value of the first metric
\* of the first row, and 0 when the report has no rows (so it is 0 exactly
\* when there are no rows or that value is 0); propertyId and the vendor's
\* target are as stated.
C5_SessionCount ==
    SessionsReported
        => /\ report[1] # <<>> =>
                ReportedSessions = ParseInt(report[1][1].metric_values[1].value)
           /\ report[1] = <<>> => ReportedSessions = 0
           /\ ReportedSessions = 0 <=>
                (\/ report[1] = <<>>
                 \/ \A i \in DOMAIN report[1][1].metric_values[1].value :
                        report[1][1].metric_values[1].value[i] = "0")
           /\ sent[1].property = "properties/" \o SuppliedPropertyId
           /\ handler \in SessionsHandlers =>
                outcome.body.json.propertyId = SuppliedPropertyId

\* two rows, the first one's value "17", reported as 17
C5_Witness ==
    /\ SessionsReported /\ Answered(200)
    /\ Len(report[1]) = 2
    /\ report[1][1].metric_values[1].value = <<"1", "7">>
    /\ ReportedSessions = 17
    /\ sent[1].property = "properties/313"

\* the value of parameter k the handler used
Used(k) ==
    CASE k = "property_id" -> locals.property_id[1]
      [] k = "start_date" -> SentRange.start_date
      [] k = "end_date" -> SentRange.end_date

\* C6: in the three sessions handlers, for each of property_id, start_date
\* and end_date, a non-empty value given only in the JSON body is the one
\* used, and of values given in both places the query string's is used.
C6_BodyFallbackPerParameter ==
    (handler \in SessionsHandlers /\ sent # None)
        => \A k \in {"property_id", "start_date", "end_date"} :
            /\ (request.args[k] = None /\ InBody(k))
                    => Used(k) = request.json[k][1]
            /\ (InQuery(k) /\ InBody(k)) => Used(k) = request.args[k][1]

\* the part of a resource name after its last "/", the whole name without one
LastPart(name) ==
    LET slashes == {i \in 1..Len(name) : name[i] = "/"}
        last == CHOOSE i \in slashes : \A j \in slashes : j <= i
    IN  IF slashes = {} THEN name ELSE SubSeq(name, last + 1, Len(name))

ListingSucceeded ==
    /\ Done /\ handler \in ListHandlers \cup {"accounts.main"}
    /\ Answered(200) \/ outcome.kind = "printed"

\* C7: a successful listing has one "accounts" entry per account summary the
\* vendor returned, in order, each with one "properties" entry per property
\* summary, in order; each propertyId is the part of the property's resource
\* name after the last "/" (the whole name when it has none).
C7_AccountsListing ==
    ListingSucceeded
        => LET accounts == outcome.body.json.accounts
           IN  /\ Len(accounts) = Len(yielded)
               /\ \A i \in 1..Len(yielded) :
                    LET a == accounts[i]
                        ps == yielded[i].property_summaries
                    IN  /\ a.account = yielded[i].account
                        /\ a.displayName = yielded[i].display_name
                        /\ Len(a.properties) = Len(ps)
                        /\ \A j \in 1..Len(ps) :
                            /\ a.properties[j].property = ps[j].property
                            /\ a.properties[j].displayName = ps[j].display_name
                            /\ a.properties[j].propertyId
                                    = LastPart(ps[j].property)

\* two accounts; the second has "a/p/3" then "2"
C7_Witness ==
    /\ ListingSucceeded /\ Len(yielded) = 2
    /\ Len(yielded[2].property_summaries) = 2
    /\ outcome.body.json.accounts[2].properties[1].propertyId = <<"3">>
    /\ outcome.body.json.accounts[2].properties[2].propertyId = <<"2">>
    /\ outcome.body.json.accounts[1].properties = <<>>

\* C8: an invocation issues at most one vendor SDK call and none after a
\* failure (a call that raised ends the invocation); one that ends with 204,
\* 401 or 400 issued none, one that ends with 200 issued exactly one.
C8_AtMostOneVendorCall ==
    /\ vendorCalls <= 1
    /\ vendorRaised => (Done /\ vendorCalls = 1)
    /\ (Done /\ outcome.kind = "response" /\ outcome.status \in {204, 401, 400})
            => (vendorCalls = 0 /\ sent = None)
    /\ (Done /\ Answered(200)) => vendorCalls = 1
    /\ (vendorCalls = 0) <=> (sent = None)

C8_Witness ==
    /\ Done /\ vendorRaised /\ vendorCalls = 1
    /\ handler = "main.ga4_property_sessions_oauth"

\* C9: main.py ga4_property_sessions_oauth checks preflight, then the
\* credentials, then the parameters, then calls the vendor: OPTIONS is
\* answered 204 with an empty body whatever else the request holds, a
\* non-OPTIONS request without valid credentials is answered 401 whether or
\* not it has a property_id, 400 and the vendor call come only after valid
\* credentials; main_oauth.py ga4_property_sessions checks the credentials
\* before the parameters likewise.
C9_CheckOrder ==
    /\ (Done /\ handler = "main.ga4_property_sessions_oauth")
        => /\ request.method = "OPTIONS"
                => (Answered(204) /\ outcome.body = [text |-> ""])
           /\ (request.method # "OPTIONS" /\ BadAuthorization)
                => Answered(401)
           /\ (Answered(400) \/ sent # None)
                => (request.method # "OPTIONS" /\ ~BadAuthorization)
           /\ sent # None => (InQuery("property_id") \/ InBody("property_id"))
    /\ (Done /\ handler = "main_oauth.ga4_property_sessions")
        => /\ BadAuthorization => Answered(401)
           /\ (Answered(400) \/ sent # None) => ~BadAuthorization
           /\ sent # None => (InQuery("property_id") \/ InBody("property_id"))

\* no Authorization header and no property_id: OPTIONS is answered 204
C9_Witness ==
    /\ Done /\ handler = "main.ga4_property_sessions_oauth"
    /\ request.method = "OPTIONS"
    /\ request.headers.Authorization = None
    /\ ~InQuery("property_id") /\ ~InBody("property_id")
    /\ Answered(204)

\* C10: every outcome of the two main.py handlers, the one after the vendor
\* call raised included, is a response with the full CORS header set
\* (stated for the requests whose JSON body, if any, is an object; the array
\* body is C2's case).
C10_EveryOutcomeHasCors ==
    (Done /\ handler \in MainHandlers /\ request.json.kind # "array")
        => /\ outcome.kind = "response"
           /\ DOMAIN outcome.headers =
                {"Content-Type", "Access-Control-Allow-Origin",
                 "Access-Control-Allow-Headers", "Access-Control-Allow-Methods"}
           /\ outcome.headers["Content-Type"] = "application/json"
           /\ outcome.headers["Access-Control-Allow-Origin"] = "*"
           /\ outcome.headers["Access-Control-Allow-Headers"]
                = "Authorization, Content-Type"
           /\ outcome.headers["Access-Control-Allow-Methods"]
                = "GET, POST, OPTIONS"

=============================================================================
